---- MODULE Spec2Model ----
(***************************************************************************)
(* Job-processing core of Rehearsal: the worker's poll loop and its        *)
(* processNextJob pipeline over the shared store (tables jobs and bugs),   *)
(* the API handler that creates a Bug and its Job, and direct inserts of   *)
(* Job rows.  Several worker processes share one store; every store call   *)
(* (an await in the source) is one step, and may fail.                     *)
(***************************************************************************)
EXTENDS Integers, Sequences, FiniteSets, TLC

\* ------------------------------------------------------------------ bounds
MaxJobs == 2
MaxBugs == 2
MaxFaults == 1

\* calls of console.log and failed requests of the page since the widget loaded
MaxTelemetry == 21

\* submissions of the bug report form
MaxAttempts == 2

\* worker processes sharing the store
Workers == {"w1", "w2"}

\* ------------------------------------------------------------------ values
NULL == "<null>"
NoConfidence == <<>>

\* payload.bugId of a Job row that references no Bug: never handed out as an id
DanglingId == MaxBugs + 1

MsgMissingBugId == "Job payload missing bugId"
MsgNotFound == "Bug not found"
MsgSyntax == "Unexpected token in JSON"
MsgStore == "Prisma request failed"
MsgProvider == "Gemini API failed"

\* a confidence of 1.0: confidences are fixed-point numbers in units of 1/Unit
Unit == 10000

\* what provider.analyze can resolve to: {analysis, diff, confidence, provider}
ProviderResults ==
    { [analysis |-> "ok", diff |-> "NONE", confidence |-> <<9000>>, provider |-> "gemini"],
      [analysis |-> "", diff |-> "--- a/x", confidence |-> <<5000>>, provider |-> "gemini"] }

NoResult == [analysis |-> NULL, diff |-> NULL, confidence |-> NoConfidence, provider |-> NULL]

\* the text of a Gemini response, as parseResponse's three regular expressions
\* cut it: the trimmed text of each "## ..." section (NULL when the expression
\* does not match) and the trimmed whole text
\* (analyze requires the text to be a non-empty string; the last one is a text
\* of white space only, whose trimmed text is empty)
Responses ==
    { [text |-> "r1", analysis |-> "ok", patch |-> "NONE", confidence |-> "0.9"],
      [text |-> "r2", analysis |-> "ok", patch |-> "none", confidence |-> "85"],
      [text |-> "r3", analysis |-> "ok", patch |-> "None", confidence |-> "-0.2"],
      [text |-> "r4", analysis |-> "ok", patch |-> "--- a/x", confidence |-> "1.5"],
      [text |-> "r5", analysis |-> "ok", patch |-> "", confidence |-> "150"],
      [text |-> "r6", analysis |-> NULL, patch |-> NULL, confidence |-> NULL],
      [text |-> "r7", analysis |-> "", patch |-> "none needed", confidence |-> "high"],
      [text |-> "r8", analysis |-> "ok", patch |-> "--- a/x", confidence |-> "1"],
      [text |-> "", analysis |-> NULL, patch |-> NULL, confidence |-> NULL] }

NoResponse == [text |-> NULL, analysis |-> NULL, patch |-> NULL, confidence |-> NULL]

MsgNoResponse == "Gemini API request failed - no response received"
MsgStatus == "Gemini API failed with status 403"
MsgApiError == "Gemini API failed: Gemini API error: API key not valid (400)"
MsgInvalidStructure == "Gemini API failed: Invalid response structure from Gemini API"
MsgNoText == "Gemini API failed: No text content found in Gemini API response"

\* what axios.post ends with: no response (time-out, network), a response with
\* an error status, or a 200 response whose data has an error member, has no
\* candidates[0].content, has content without text, or has content with a text
GeminiReplies ==
    { [http |-> "none", error |-> FALSE, candidates |-> FALSE, content |-> NoResponse],
      [http |-> "403", error |-> TRUE, candidates |-> FALSE, content |-> NoResponse],
      [http |-> "200", error |-> TRUE, candidates |-> FALSE, content |-> NoResponse],
      [http |-> "200", error |-> FALSE, candidates |-> FALSE, content |-> NoResponse],
      [http |-> "200", error |-> FALSE, candidates |-> TRUE, content |-> NoResponse] }
        \cup {[http |-> "200", error |-> FALSE, candidates |-> TRUE, content |-> c] :
                    c \in Responses}

VARIABLES
    jobs,        \* table jobs, in creation order: <<[type, payload, status, error, createdAt]>>
    bugs,        \* table bugs, in creation order; a Bug's id is its index
    faultsLeft,  \* store calls that can still fail
    apiPc,       \* position of the POST /api/bugs handler
    apiBug,      \* the handler's local bug.id
    req,         \* the request the API received last
    res,         \* the response to it (NoRes while the handler runs)
    isRunning,   \* Worker.isRunning
    pollTimer,   \* Worker.pollTimer is pending
    pc,          \* position of each worker inside poll/processNextJob
    job,         \* processNextJob's local job (0 is null)
    bugId,       \* processNextJob's local bugId (0 is null)
    bug,         \* processNextJob's local bug, the row as findUnique returned it
    result,      \* processNextJob's local result
    response,    \* the response text GeminiProvider.analyze received in this cycle
    codeContext, \* processNextJob's local codeContext
    err,         \* the error caught by processNextJob's catch
    failedAt,    \* the position at which that error was thrown
    outcome,     \* how the cycle's processNextJob returned
    cycleFaults, \* store calls that failed in the current cycle
    analyzers,   \* per Job: the workers that invoked the provider for it
    writers,     \* per Job: the workers that wrote its Bug while processing it
    tree,        \* the file tree under the worker's working directory
    bugUrl,      \* the url of the Bugs that are reported
    telemetry,   \* the widget's TelemetryBuffer: [consoleLogs, networkErrors]
    added,       \* every entry pushed to each buffer since it was last cleared
    widget       \* the form submissions so far and the answer to the last one

store == <<jobs, bugs, faultsLeft>>
api == <<apiPc, apiBug, req, res>>
locals == <<job, bugId, bug, result, response, codeContext, err, failedAt, outcome, cycleFaults>>
page == <<telemetry, added, widget>>
inputs == <<tree, bugUrl, page>>
ghosts == <<analyzers, writers>>
life == <<isRunning, pollTimer>>
vars == <<jobs, bugs, faultsLeft, apiPc, apiBug, req, res, isRunning, pollTimer, pc, job, bugId,
          bug, result, response, codeContext, err, failedAt, outcome, cycleFaults, analyzers,
          writers, tree, bugUrl, telemetry, added, widget>>

\* ------------------------------------------------------------------ HTTP
\* table projects: the demo project of scripts/seed.ts and a second project
projects ==
    << [id |-> 1, publicKey |-> "public_demo_key", secretKey |-> "secret_demo_key"],
       [id |-> 2, publicKey |-> "public_test_key", secretKey |-> "secret_test_key"] >>

ProjectIds == 1..Len(projects)

\* z.enum(['new', 'queued', 'analyzing', 'analyzed', 'error'])
BugStatusSchema == {"new", "queued", "analyzing", "analyzed", "error"}

\* values of the x-bugger-key header; NULL when the header is missing
Keys == {NULL, "secret_demo_key", "secret_test_key", "wrong_key"}

\* POST /api/bugs requests: the header, whether the body passes
\* CreateBugPayloadSchema, and the payload's projectPublicKey (a body that fails
\* the schema is answered before any of its fields is read: NULL)
PostRequests ==
    [method : {"POST"}, key : Keys,
     projectPublicKey : {"public_demo_key", "public_test_key"},
     valid : {TRUE}, status : {NULL}]
        \cup [method : {"POST"}, key : Keys, projectPublicKey : {NULL},
              valid : {FALSE}, status : {NULL}]

\* GET /api/bugs requests: the header and the status query parameter
GetRequests ==
    [method : {"GET"}, key : Keys, projectPublicKey : {NULL}, valid : {TRUE},
     status : {NULL, "analyzed", "bogus"}]

DemoRequest ==
    [method |-> "POST", key |-> "secret_demo_key", projectPublicKey |-> "public_demo_key",
     valid |-> TRUE, status |-> NULL]

NoReq ==
    [method |-> NULL, key |-> NULL, projectPublicKey |-> NULL, valid |-> FALSE,
     status |-> NULL]

\* a response: HTTP status code and JSON body ({error} | {id, status} | [bug records])
NoRes == [code |-> 0, error |-> NULL, id |-> 0, status |-> NULL, bugs |-> <<>>]

\* res.status(code).json({ error: msg })
ErrorReply(code, msg) == [NoRes EXCEPT !.code = code, !.error = msg]

\* prisma.project.findUnique({ where: { secretKey } }): the project's id, 0 for null
FindProject(key) ==
    IF \E p \in ProjectIds : projects[p].secretKey = key
    THEN CHOOSE p \in ProjectIds : projects[p].secretKey = key
    ELSE 0

\* authenticateProject: req.project's id, 0 when the middleware answers 401
authenticateProject(r) == IF r.key = NULL THEN 0 ELSE FindProject(r.key)

\* ------------------------------------------------------------------ store
JobIds == 1..Len(jobs)
BugIds == 1..Len(bugs)

NewJob(type, payload, createdAt) ==
    [type |-> type, payload |-> payload, status |-> "queued", error |-> NULL,
     createdAt |-> createdAt]

NoBug ==
    [status |-> NULL, aiAnalysis |-> NULL, aiPatchDiff |-> NULL,
     confidence |-> NoConfidence, aiProvider |-> NULL, projectId |-> 0]

\* a bug.create that leaves status to the column's default
NewBugDefaultStatus(p) ==
    [status |-> "new", aiAnalysis |-> NULL, aiPatchDiff |-> NULL,
     confidence |-> NoConfidence, aiProvider |-> NULL, projectId |-> p]

\* data of prisma.bug.create for the authenticated project p
NewBug(p) ==
    [status |-> "queued", aiAnalysis |-> NULL, aiPatchDiff |-> NULL,
     confidence |-> NoConfidence, aiProvider |-> NULL, projectId |-> p]

\* a claim query that also retries failed Jobs
QueuedOrError(js) ==
    {j \in 1..Len(js) : js[j].status \in {"queued", "error"} /\ js[j].type = "ANALYZE_BUG"}

\* a claim query that also resumes Jobs left in processing
QueuedOrProcessing(js) ==
    {j \in 1..Len(js) : js[j].status \in {"queued", "processing"} /\ js[j].type = "ANALYZE_BUG"}

\* a claim query without the type filter
QueuedAnyType(js) == {j \in 1..Len(js) : js[j].status = "queued"}

\* where: { status: 'queued', type: 'ANALYZE_BUG' }
Queued(js) == {j \in 1..Len(js) : js[j].status = "queued" /\ js[j].type = "ANALYZE_BUG"}

\* orderBy: { createdAt: 'desc' }
NewestQueued(js) ==
    IF Queued(js) = {} THEN 0
    ELSE CHOOSE j \in Queued(js) : \A k \in Queued(js) : js[k].createdAt <= js[j].createdAt

\* prisma.job.findFirst({where, orderBy: {createdAt: 'asc'}}); 0 is null
FindFirstQueued(js) ==
    IF Queued(js) = {} THEN 0
    ELSE CHOOSE j \in Queued(js) : \A k \in Queued(js) : js[j].createdAt <= js[k].createdAt

\* a status write that rejects a repeated transition by recording it as an error
JobSetStatusStrict(js, id, st) ==
    IF js[id].status = st
    THEN [js EXCEPT ![id].error = "already " \o st]
    ELSE [js EXCEPT ![id].status = st]

\* prisma.job.update({where: {id}, data: {status}})
JobSetStatus(js, id, st) == [js EXCEPT ![id].status = st]

\* an error write that records the status without the message
JobSetErrorNoMessage(js, id, msg) == [js EXCEPT ![id].status = "error"]

\* prisma.job.update({where: {id}, data: {status: 'error', error}})
JobSetError(js, id, msg) == [js EXCEPT ![id].status = "error", ![id].error = msg]

\* the analysis persisted with the provider's diff as it came
PersistedRawDiff(r) ==
    [status |-> "analyzed", aiAnalysis |-> r.analysis, aiPatchDiff |-> r.diff,
     confidence |-> r.confidence, aiProvider |-> r.provider]

\* the data of the bug.update that persists an analysis
Persisted(r) ==
    [status |-> "analyzed", aiAnalysis |-> r.analysis,
     aiPatchDiff |-> IF r.diff = "NONE" THEN NULL ELSE r.diff,
     confidence |-> r.confidence, aiProvider |-> r.provider]

\* an error write whose where clause matches every row
BugSetErrorAll(bs, id) == [b \in 1..Len(bs) |-> [bs[b] EXCEPT !.status = "error"]]

\* an error write that also resets the analysis fields
BugSetErrorReset(bs, id) ==
    IF id \in 1..Len(bs)
    THEN [bs EXCEPT ![id] = [NewBug(bs[id].projectId) EXCEPT !.status = "error"]]
    ELSE bs

\* prisma.bug.update({where: {id}, data: {status: 'error'}}); with no row of that
\* id the call rejects and writes nothing
BugSetError(bs, id) ==
    IF id \in 1..Len(bs) THEN [bs EXCEPT ![id].status = "error"] ELSE bs

\* an idempotency check that looks for a stored patch instead of the analysis
AlreadyPatched(b) == b.status = "analyzed" /\ b.aiPatchDiff # NULL

\* bug.status === 'analyzed' && bug.aiAnalysis
AlreadyAnalyzed(b) == b.status = "analyzed" /\ b.aiAnalysis # NULL /\ b.aiAnalysis # ""

CanFail == faultsLeft > 0

\* ------------------------------------------------------------------ GeminiProvider
\* String.prototype.toLowerCase on the patch texts of Responses
toLowerCase(t) == IF t \in {"NONE", "None", "none"} THEN "none" ELSE t

\* parseFloat on the confidence texts of Responses: <<v>> in units of 1/Unit,
\* <<>> for NaN
parseFloat(t) ==
    CASE t = "0.9" -> <<9000>>
      [] t = "85" -> <<850000>>
      [] t = "-0.2" -> <<-2000>>
      [] t = "1.5" -> <<15000>>
      [] t = "150" -> <<1500000>>
      [] t = "1" -> <<10000>>
      [] OTHER -> <<>>

\* Math.max(0.1, Math.min(1.0, confidence)) without the lower bound
ClampUpper(v) == IF v > Unit THEN Unit ELSE v

\* Math.max(0.1, Math.min(1.0, confidence))
Clamp(v) ==
    LET upper == IF v > Unit THEN Unit ELSE v
    IN IF upper < Unit \div 10 THEN Unit \div 10 ELSE upper

\* confidenceValue > 1 ? confidenceValue / 100 : confidenceValue
Percentage(v) == IF v > Unit THEN v \div 100 ELSE v

\* the patch test of parseResponse without toLowerCase
PatchDiffExact(t) == IF t # NULL /\ t # "NONE" /\ t # "" THEN t ELSE "NONE"

\* let diff = 'NONE'; if (patchMatch) { patchContent = patchMatch[1].trim();
\* if (patchContent.toLowerCase() !== 'none' && patchContent.length > 0) diff = patchContent }
PatchDiff(t) == IF t # NULL /\ toLowerCase(t) # "none" /\ t # "" THEN t ELSE "NONE"

\* let confidence = 0.5; if (confidenceMatch) { v = parseFloat(text);
\* if (!isNaN(v)) confidence = v > 1 ? v / 100 : v }
ParsedConfidence(t) ==
    IF t # NULL /\ parseFloat(t) # <<>> THEN Percentage(parseFloat(t)[1]) ELSE Unit \div 2

\* the error GeminiProvider.analyze throws for a reply, NULL when it goes on to
\* parseResponse
analyzeError(reply) ==
    IF reply.http = "none" THEN MsgNoResponse
    ELSE IF reply.http # "200" THEN MsgStatus
    ELSE IF reply.error THEN MsgApiError
    ELSE IF ~reply.candidates THEN MsgInvalidStructure
    ELSE IF reply.content = NoResponse THEN MsgNoText
    ELSE NULL

\* GeminiProvider.parseResponse(content)
parseResponse(c) ==
    LET analysis == IF c.analysis # NULL THEN c.analysis ELSE ""
        diff == PatchDiff(c.patch)
    IN [analysis |-> IF analysis = "" THEN c.text ELSE analysis,
        diff |-> IF diff = "" THEN "NONE" ELSE diff,
        confidence |-> <<Clamp(ParsedConfidence(c.confidence))>>,
        provider |-> "gemini"]


\* ------------------------------------------------------------------ initial state
\* ------------------------------------------------------------------ context discovery
\* .slice(0, 30)
MaxContextFiles == 30

\* if (depth > 10) return
MaxDepth == 10

\* numbers of generated files m1.ts, m2.ts, ... in src/gen
FillerCounts == {0, 29, 31}

FillerName(i) == "m" \o ToString(i) \o ".ts"

FillerNames == {FillerName(i) : i \in 1..31}

\* the directory d1/d2/.../dk
Chain(k) == [i \in 1..k |-> "d" \o ToString(i)]

\* fs.Dirent
Dir(name) == [name |-> name, isDirectory |-> TRUE, isFile |-> FALSE]

File(name) == [name |-> name, isDirectory |-> FALSE, isFile |-> TRUE]

\* a socket, a symbolic link: neither isDirectory() nor isFile()
Other(name) == [name |-> name, isDirectory |-> FALSE, isFile |-> FALSE]

\* the directories of the repository under process.cwd(), as sequences of names
Directories ==
    {<<>>, <<"src">>, <<"src", "checkout">>, <<"src", "gen">>, <<"src", "dist">>,
     <<"node_modules">>, <<"prisma">>, <<"prisma", "migrations">>}
        \cup {Chain(k) : k \in 1..11}

\* the entries of a directory in the order readdirSync returns them; t.filler is
\* the number of generated files, t.empty an empty working directory
Entries(t, dir) ==
    CASE t.empty -> <<>>
      [] dir = <<>> ->
            <<Dir("d1"), Dir("node_modules"), Dir("prisma"), Dir("src"),
              File("README.md"), File("api.ts"), Other("link.ts")>>
      [] dir = <<"src">> ->
            <<File("BugForm.tsx"), File("Main.TS"), Dir("checkout"), Dir("dist"),
              Dir("gen"), File("styles.css")>>
      [] dir = <<"src", "checkout">> -> <<File("page.tsx"), File("notes.txt")>>
      [] dir = <<"src", "gen">> -> [i \in 1..t.filler |-> File(FillerName(i))]
      [] dir = <<"src", "dist">> -> <<File("bug.js")>>
      [] dir = <<"node_modules">> -> <<File("logger.js")>>
      [] dir = <<"prisma">> -> <<Dir("migrations")>>
      [] dir = <<"prisma", "migrations">> -> <<File("route.ts")>>
      [] dir = Chain(9) -> <<Dir("d10"), File("x.css")>>
      [] dir = Chain(10) -> <<Dir("d11"), File("error.ts")>>
      [] dir = Chain(11) -> <<File("logger.ts")>>
      [] OTHER -> <<Dir("d" \o ToString(Len(dir) + 1))>>

\* the directories fs.readdirSync cannot read (EACCES, ENOENT)
DeniedSets == {{}, {<<>>}, {<<"src">>}, {<<"src", "gen">>}, {<<"src", "checkout">>}}

EmptyTree == [empty |-> TRUE, filler |-> 0, denied |-> {}]

Trees == [empty : {FALSE}, filler : FillerCounts, denied : DeniedSets] \cup {EmptyTree}

DemoTree == EmptyTree

Urls == {"https://app.test/", "https://app.test/checkout/cart", "https://app.test/Checkout?step=2"}

DemoUrl == "https://app.test/checkout/cart"

\* new URL(bugUrl).pathname.split('/').filter(Boolean), on Urls
UrlSegments(url) ==
    CASE url = "https://app.test/checkout/cart" -> <<"checkout", "cart">>
      [] url = "https://app.test/Checkout?step=2" -> <<"Checkout">>
      [] OTHER -> <<>>

\* String.prototype.toLowerCase on the URL segments
SegmentLower(seg) == IF seg = "Checkout" THEN "checkout" ELSE seg

skipDirs == {"node_modules", "dist", ".git", "prisma/migrations", ".next", "build"}

keywords == {"error", "logger", "form", "route", "api", "bug", "component"}

\* name.toLowerCase().includes(word), for the names of the tree and the words that
\* are keywords or lower-cased URL segments: the words a name includes
Includes(name) ==
    CASE name = "api.ts" -> {"api"}
      [] name = "BugForm.tsx" -> {"bug", "form"}
      [] name = "bug.js" -> {"bug"}
      [] name \in {"logger.js", "logger.ts"} -> {"logger"}
      [] name = "error.ts" -> {"error"}
      [] name = "route.ts" -> {"route"}
      [] name = "checkout" -> {"checkout"}
      [] OTHER -> {}

\* lowerPath.includes(word): a word holds no '/', so it lies within one segment
PathIncludes(filePath, word) == \E i \in 1..Len(filePath) : word \in Includes(filePath[i])

\* path.extname(entry.name).toLowerCase()
extname(name) ==
    CASE name \in FillerNames \cup {"api.ts", "Main.TS", "route.ts", "error.ts", "logger.ts", "link.ts"} -> ".ts"
      [] name \in {"BugForm.tsx", "page.tsx"} -> ".tsx"
      [] name \in {"bug.js", "logger.js"} -> ".js"
      [] name \in {"styles.css", "x.css"} -> ".css"
      [] name = "README.md" -> ".md"
      [] name = "notes.txt" -> ".txt"
      [] OTHER -> ""

\* fileName.endsWith(suffix), which compares case
endsWith(name, suffix) == name # "Main.TS" /\ extname(name) = suffix

\* path.basename(dir); the root is the working directory of the worker
basename(dir) == IF dir = <<>> THEN "worker" ELSE dir[Len(dir)]

calculateRelevanceScore(filePath, fileName, urlSegments) ==
    10 * Cardinality({k \in keywords : k \in Includes(fileName)})
    + 5 * Cardinality({k \in keywords : PathIncludes(filePath, k)})
    + 8 * Cardinality({i \in 1..Len(urlSegments) :
                            PathIncludes(filePath, SegmentLower(urlSegments[i]))})
    + (IF MaxDepth - Len(filePath) > 0 THEN MaxDepth - Len(filePath) ELSE 0)
    + (IF endsWith(fileName, ".tsx") \/ endsWith(fileName, ".jsx") THEN 3
       ELSE IF endsWith(fileName, ".ts") \/ endsWith(fileName, ".js") THEN 2 ELSE 0)

\* a readdirSync that fails everywhere as soon as one directory cannot be read
ReadableAllOrNone(t, dir) == t.denied = {}

\* fs.readdirSync(dir) returns
Readable(t, dir) == dir \notin t.denied

RECURSIVE walkDirectory(_, _, _, _)
RECURSIVE walkEntries(_, _, _, _, _)

\* the loop over the entries of dir from the i-th on: what it pushes to relevantFiles
walkEntries(t, dir, urlSegments, depth, i) ==
    IF i > Len(Entries(t, dir)) THEN <<>>
    ELSE LET entry == Entries(t, dir)[i]
             relativePath == Append(dir, entry.name)
             score == calculateRelevanceScore(relativePath, entry.name, urlSegments)
             pushed ==
                 IF entry.isDirectory
                 THEN walkDirectory(t, relativePath, urlSegments, depth + 1)
                 ELSE IF /\ entry.isFile
                         /\ extname(entry.name) \in {".ts", ".tsx", ".js", ".jsx", ".css"}
                         /\ score > 0
                      THEN <<[path |-> relativePath, score |-> score]>>
                      ELSE <<>>
         IN pushed \o walkEntries(t, dir, urlSegments, depth, i + 1)

\* what walkDirectory(dir, relevantFiles, urlSegments, depth) pushes; an error of
\* readdirSync is caught inside and the directory skipped
walkDirectory(t, dir, urlSegments, depth) ==
    IF depth > MaxDepth THEN <<>>
    ELSE IF basename(dir) \in skipDirs THEN <<>>
    ELSE IF ~Readable(t, dir) THEN <<>>
    ELSE walkEntries(t, dir, urlSegments, depth, 1)

\* a sort that leaves the order of the walk
Unsorted(files) == files

RECURSIVE SortByScore(_)
\* Array.prototype.sort((a, b) => b.score - a.score), which is stable
SortByScore(files) ==
    IF files = <<>> THEN <<>>
    ELSE LET rest == SortByScore(SubSeq(files, 1, Len(files) - 1))
             last == files[Len(files)]
             keep == Cardinality({i \in 1..Len(rest) : rest[i].score >= last.score})
         IN SubSeq(rest, 1, keep) \o <<last>> \o SubSeq(rest, keep + 1, Len(rest))

\* .slice(0, 30)
Slice(files) == SubSeq(files, 1, IF Len(files) < MaxContextFiles THEN Len(files) ELSE MaxContextFiles)

\* .filter((path, index, array) => array.indexOf(path) === index)
Dedupe(paths) ==
    LET first == {i \in 1..Len(paths) : \A j \in 1..(i - 1) : paths[j] # paths[i]}
        F[i \in 0..Len(paths)] ==
            IF i = 0 THEN <<>>
            ELSE IF i \in first THEN Append(F[i - 1], paths[i]) ELSE F[i - 1]
    IN F[Len(paths)]

\* discoverCodeContext(bugUrl) with repoRoot = process.cwd(); walkDirectory
\* catches the errors of readdirSync itself, nothing reaches the outer catch
discoverCodeContext(url, t) ==
    LET relevantFiles == walkDirectory(t, <<>>, UrlSegments(url), 0)
        top == Slice(SortByScore(relevantFiles))
    IN Dedupe([i \in 1..Len(top) |-> top[i].path])

\* discoverCodeContext(bug.url), tabulated over the URLs and the file trees
ContextOf == [url \in Urls, t \in Trees |-> discoverCodeContext(url, t)]

\* ------------------------------------------------------------------ widget
\* TelemetryBuffer.maxSize
maxSize == 20

\* a slice that keeps the oldest entries
SliceFirst(s, n) == SubSeq(s, 1, n)

\* Array.prototype.slice(-n) on an array longer than n
SliceLast(s, n) == SubSeq(s, Len(s) - n + 1, Len(s))

\* push(entry); if (length > maxSize) buffer = buffer.slice(-maxSize)
Push(buffer, entry) ==
    IF Len(Append(buffer, entry)) > maxSize
    THEN SliceLast(Append(buffer, entry), maxSize)
    ELSE Append(buffer, entry)

NoTelemetry == [consoleLogs |-> <<>>, networkErrors |-> <<>>]

\* TelemetryBuffer.addConsoleLog(level, message) at time timestamp
addConsoleLog(t, level, message, timestamp) ==
    [t EXCEPT !.consoleLogs =
        Push(@, [level |-> level, message |-> message, timestamp |-> timestamp])]

\* TelemetryBuffer.addNetworkError(url, status, method) at time timestamp; status
\* 0 and method NULL are undefined
addNetworkError(t, url, status, method, timestamp) ==
    [t EXCEPT !.networkErrors =
        Push(@, [url |-> url, status |-> status, method |-> method, timestamp |-> timestamp])]

\* TelemetryBuffer.clear()
clear(t) == NoTelemetry

\* the two methods applied to the record of everything pushed
RecordConsoleLog(a, level, message) ==
    [a EXCEPT !.consoleLogs =
        Append(@, [level |-> level, message |-> message, timestamp |-> Len(@) + 1])]

RecordNetworkError(a, url, status, method) ==
    [a EXCEPT !.networkErrors =
        Append(@, [url |-> url, status |-> status, method |-> method, timestamp |-> Len(@) + 1])]

\* the page calls console.log, which the widget has patched
PageLog ==
    /\ widget.attempts = 0
    /\ Len(added.consoleLogs) < MaxTelemetry
    /\ telemetry' = addConsoleLog(telemetry, "log", "page", Len(added.consoleLogs) + 1)
    /\ added' = RecordConsoleLog(added, "log", "page")
    /\ UNCHANGED <<store, api, life, pc, locals, ghosts, tree, bugUrl, widget>>

\* a fetch of the page is answered with status 500, through the patched fetch
PageNetworkError ==
    /\ widget.attempts = 0
    /\ Len(added.networkErrors) < MaxTelemetry
    /\ telemetry' = addNetworkError(telemetry, "/page", 500, "GET", Len(added.networkErrors) + 1)
    /\ added' = RecordNetworkError(added, "/page", 500, "GET")
    /\ UNCHANGED <<store, api, life, pc, locals, ghosts, tree, bugUrl, widget>>

\* what the fetch of a submission ends with: a status, or 0 when fetch throws
Answers == {201, 401, 0}

\* a widget that clears its buffers whatever the answer
ClearsAlways(answer) == TRUE

\* response.ok
ClearsOn(answer) == answer >= 200 /\ answer <= 299

\* the buffers and the record of pushes after captureScreenshot: it logs a
\* warning through the patched console.warn when the capture fails
AfterScreenshot(ta, captured) ==
    IF captured THEN ta
    ELSE [t |-> addConsoleLog(ta.t, "warn", "Screenshot capture failed:",
                              Len(ta.a.consoleLogs) + 1),
          a |-> RecordConsoleLog(ta.a, "warn", "Screenshot capture failed:")]

\* ... after the patched fetch: it records an answer with status >= 400, and a
\* fetch that threw
AfterFetch(ta, answer) ==
    IF answer = 0
    THEN [t |-> addNetworkError(ta.t, "/api/bugs", 0, NULL, Len(ta.a.networkErrors) + 1),
          a |-> RecordNetworkError(ta.a, "/api/bugs", 0, NULL)]
    ELSE IF answer >= 400
    THEN [t |-> addNetworkError(ta.t, "/api/bugs", answer, "POST", Len(ta.a.networkErrors) + 1),
          a |-> RecordNetworkError(ta.a, "/api/bugs", answer, "POST")]
    ELSE ta

\* ... after the answer was handled: clear() when response.ok, console.error in
\* the catch block when fetch threw
AfterAnswer(ta, answer) ==
    IF answer = 0
    THEN [t |-> addConsoleLog(ta.t, "error", "Error submitting bug report:",
                              Len(ta.a.consoleLogs) + 1),
          a |-> RecordConsoleLog(ta.a, "error", "Error submitting bug report:")]
    ELSE IF ClearsOn(answer) THEN [t |-> clear(ta.t), a |-> NoTelemetry]
    ELSE ta

\* Bugger.submitBugReport(form): the payload takes copies of the buffers, then
\* captureScreenshot, fetch and the handling of the answer (the page's own
\* logging during its awaits is not interleaved)
SubmitBugReport ==
    /\ widget.attempts < MaxAttempts
    /\ \E captured \in BOOLEAN, answer \in Answers :
          LET end == AfterAnswer(AfterFetch(AfterScreenshot([t |-> telemetry, a |-> added],
                                                             captured), answer), answer)
          IN /\ telemetry' = end.t
             /\ added' = end.a
             /\ widget' = [attempts |-> widget.attempts + 1, answer |-> answer,
                           payload |-> telemetry]
    /\ UNCHANGED <<store, api, life, pc, locals, ghosts, tree, bugUrl>>

InitStore(n) ==
    /\ telemetry = NoTelemetry
    /\ added = NoTelemetry
    /\ widget = [attempts |-> 0, answer |-> 0, payload |-> NoTelemetry]
    /\ jobs = <<>>
    /\ bugs = <<>>
    /\ faultsLeft = n
    /\ apiPc = "idle"
    /\ apiBug = 0
    /\ req = NoReq
    /\ res = NoRes
    /\ isRunning = [w \in Workers |-> FALSE]
    /\ pollTimer = [w \in Workers |-> FALSE]
    /\ pc = [w \in Workers |-> "none"]
    /\ job = [w \in Workers |-> 0]
    /\ bugId = [w \in Workers |-> 0]
    /\ bug = [w \in Workers |-> NoBug]
    /\ result = [w \in Workers |-> NoResult]
    /\ response = [w \in Workers |-> NoResponse]
    /\ err = [w \in Workers |-> NULL]
    /\ failedAt = [w \in Workers |-> "none"]
    /\ outcome = [w \in Workers |-> "none"]
    /\ cycleFaults = [w \in Workers |-> 0]
    /\ codeContext = [w \in Workers |-> <<>>]
    /\ analyzers = <<>>
    /\ writers = <<>>

\* a worker started in an empty directory, every Bug reported from the demo URL
InitWith(n) == InitStore(n) /\ tree = DemoTree /\ bugUrl = DemoUrl

\* the store can fail MaxFaults times
Init == InitWith(MaxFaults)

\* the store never fails
InitReliable == InitWith(0)

\* ------------------------------------------------------------------ API and direct inserts
\* the middleware chain without the handler's publicKey check
PostRejectionNoKeyCheck(r, limited) ==
    IF limited THEN ErrorReply(429, "Too many requests, please try again later.")
    ELSE IF authenticateProject(r) = 0 THEN ErrorReply(401, "Authentication required")
    ELSE IF ~r.valid THEN ErrorReply(400, "Invalid request data")
    ELSE NoRes

\* a chain whose three authentication failures are answered differently
PostRejectionDistinct(r, limited) ==
    IF limited THEN ErrorReply(429, "Too many requests, please try again later.")
    ELSE IF r.key = NULL THEN ErrorReply(401, "Missing API key")
    ELSE IF authenticateProject(r) = 0 THEN ErrorReply(401, "Invalid API key")
    ELSE IF ~r.valid THEN ErrorReply(400, "Invalid request data")
    ELSE IF r.projectPublicKey # projects[authenticateProject(r)].publicKey
    THEN ErrorReply(403, "Project key mismatch")
    ELSE NoRes

\* the answer of createBugRateLimit, authenticateProject, validateBody and the
\* publicKey check to a POST /api/bugs; NoRes when the request goes on to bug.create
PostRejection(r, limited) ==
    IF limited THEN ErrorReply(429, "Too many requests, please try again later.")
    ELSE IF authenticateProject(r) = 0 THEN ErrorReply(401, "Authentication required")
    ELSE IF ~r.valid THEN ErrorReply(400, "Invalid request data")
    ELSE IF r.projectPublicKey # projects[authenticateProject(r)].publicKey
    THEN ErrorReply(401, "Authentication required")
    ELSE NoRes

\* a handler that goes on to job.create before the Bug row is stored
PostBugsUnstored(r, limited) ==
    /\ apiPc = "idle"
    /\ req' = r
    /\ \/ /\ PostRejection(r, limited) # NoRes
          /\ res' = PostRejection(r, limited)
          /\ UNCHANGED <<apiBug, apiPc>>
       \/ /\ PostRejection(r, limited) = NoRes
          /\ Len(jobs) < MaxJobs
          /\ apiBug' = Len(bugs) + 1
          /\ apiPc' = "createJob"
          /\ res' = NoRes
    /\ UNCHANGED <<jobs, bugs, faultsLeft, life, pc, locals, ghosts, inputs>>

\* POST /api/bugs for request r, up to and including its first store write: the
\* middleware chain, the publicKey check, prisma.bug.create (status 'queued')
PostBugs(r, limited) ==
    /\ apiPc = "idle"
    /\ req' = r
    /\ \/ /\ PostRejection(r, limited) # NoRes
          /\ res' = PostRejection(r, limited)
          /\ UNCHANGED <<bugs, faultsLeft, apiBug, apiPc>>
       \/ /\ PostRejection(r, limited) = NoRes
          /\ Len(bugs) < MaxBugs
          /\ Len(jobs) < MaxJobs
          /\ bugs' = Append(bugs, NewBug(authenticateProject(r)))
          /\ apiBug' = Len(bugs) + 1
          /\ apiPc' = "createJob"
          /\ res' = NoRes
          /\ UNCHANGED faultsLeft
       \/ /\ PostRejection(r, limited) = NoRes
          /\ Len(bugs) < MaxBugs
          /\ Len(jobs) < MaxJobs
          /\ CanFail
          /\ faultsLeft' = faultsLeft - 1
          /\ res' \in {ErrorReply(401, "Authentication required"),
                       ErrorReply(500, "Failed to create bug report")}
          /\ UNCHANGED <<bugs, apiBug, apiPc>>
    /\ UNCHANGED <<jobs, life, pc, locals, ghosts, inputs>>

\* POST /api/bugs of the demo project with a valid payload, within the rate limit
CreateBug == PostBugs(DemoRequest, FALSE)

\* POST /api/bugs of any client
Submit == \E r \in PostRequests, limited \in BOOLEAN : PostBugs(r, limited)

\* POST /api/bugs with a project's own keys and a valid payload, within the rate limit
SubmitAccepted ==
    \E r \in {q \in PostRequests : PostRejection(q, FALSE) = NoRes} : PostBugs(r, FALSE)

\* POST /api/bugs, second store call: prisma.job.create, then the 201 (or the 500)
CreateJob ==
    /\ apiPc = "createJob"
    /\ \/ /\ jobs' = Append(jobs, NewJob("ANALYZE_BUG", [parses |-> TRUE, bugId |-> apiBug],
                                         Len(jobs) + 1))
          /\ analyzers' = Append(analyzers, {})
          /\ writers' = Append(writers, {})
          /\ res' = [NoRes EXCEPT !.code = 201, !.id = apiBug, !.status = "queued"]
          /\ UNCHANGED faultsLeft
       \/ /\ CanFail
          /\ faultsLeft' = faultsLeft - 1
          /\ res' = ErrorReply(500, "Failed to create bug report")
          /\ UNCHANGED <<jobs, ghosts>>
    /\ apiPc' = "idle"
    /\ apiBug' = 0
    /\ UNCHANGED <<bugs, req, life, pc, locals, inputs>>

\* prisma.bug.findMany({where: {projectId, status?}}) without the projectId
FindManyAnyProject(bs, p, st) ==
    SelectSeq([i \in 1..Len(bs) |-> Len(bs) + 1 - i],
              LAMBDA b : st = NULL \/ bs[b].status = st)

\* prisma.bug.findMany({where: {projectId, status?}, orderBy: {createdAt: 'desc'}}):
\* the ids of the rows found
FindMany(bs, p, st) ==
    SelectSeq([i \in 1..Len(bs) |-> Len(bs) + 1 - i],
              LAMBDA b : bs[b].projectId = p /\ (st = NULL \/ bs[b].status = st))

\* bugs.map(bug => ({id, ..., status, ..., projectPublicKey: project.publicKey}))
BugRecords(bs, ids, p) ==
    [i \in 1..Len(ids) |->
        [id |-> ids[i], status |-> bs[ids[i]].status,
         projectPublicKey |-> projects[p].publicKey]]

\* the answer of GET /api/bugs to request r when no store call fails
ListReply(r) ==
    IF authenticateProject(r) = 0 THEN ErrorReply(401, "Authentication required")
    ELSE IF r.status \notin BugStatusSchema \cup {NULL}
    THEN ErrorReply(500, "Failed to fetch bugs")
    ELSE [NoRes EXCEPT !.code = 200,
                       !.bugs = BugRecords(bugs, FindMany(bugs, authenticateProject(r), r.status),
                                           authenticateProject(r))]

\* GET /api/bugs: authenticateProject, ListBugsQuerySchema.parse, findMany
ListBugs ==
    /\ apiPc = "idle"
    /\ \E r \in GetRequests :
          /\ req' = r
          /\ \/ /\ res' = ListReply(r)
                /\ UNCHANGED faultsLeft
             \/ /\ r.key # NULL
                /\ CanFail
                /\ faultsLeft' = faultsLeft - 1
                /\ res' \in {ErrorReply(401, "Authentication required")}
                             \cup (IF ListReply(r).code = 200
                                   THEN {ErrorReply(500, "Failed to fetch bugs")} ELSE {})
    /\ UNCHANGED <<jobs, bugs, apiPc, apiBug, life, pc, locals, ghosts, inputs>>

\* payloads a Job row written directly into the table can carry: unparsable text,
\* JSON without bugId, the id of no Bug, the id of an existing Bug
DirectPayloads ==
    {[parses |-> FALSE, bugId |-> 0], [parses |-> TRUE, bugId |-> 0],
     [parses |-> TRUE, bugId |-> DanglingId]}
        \cup {[parses |-> TRUE, bugId |-> b] : b \in BugIds}

\* a Job row inserted into the table directly (payload is TEXT, no foreign key)
InsertJob ==
    /\ Len(jobs) + (IF apiPc = "createJob" THEN 1 ELSE 0) < MaxJobs
    /\ \E row \in {NewJob("ANALYZE_BUG", p, Len(jobs) + 1) : p \in DirectPayloads}
                    \cup {NewJob("OTHER", [parses |-> TRUE, bugId |-> 0], Len(jobs) + 1)} :
            jobs' = Append(jobs, row)
    /\ analyzers' = Append(analyzers, {})
    /\ writers' = Append(writers, {})
    /\ UNCHANGED <<bugs, faultsLeft, api, life, pc, locals, inputs>>

\* ------------------------------------------------------------------ worker lifecycle
\* Worker.start: isRunning = true, then poll() enters processNextJob
Start(w) ==
    /\ ~isRunning[w]
    /\ pc[w] = "none"
    /\ ~pollTimer[w]
    /\ isRunning' = [isRunning EXCEPT ![w] = TRUE]
    /\ pc' = [pc EXCEPT ![w] = "findFirst"]
    /\ UNCHANGED <<store, api, pollTimer, locals, ghosts, inputs>>

\* Worker.stop: isRunning = false, clearTimeout(pollTimer)
Stop(w) ==
    /\ isRunning[w]
    /\ isRunning' = [isRunning EXCEPT ![w] = FALSE]
    /\ pollTimer' = [pollTimer EXCEPT ![w] = FALSE]
    /\ UNCHANGED <<store, api, pc, locals, ghosts, inputs>>

\* the worker process is killed, or exits from its signal handler, wherever its
\* cycle is: the instance, its timer and its locals are gone, the store is as the
\* last completed call left it; Start is then the start of a new process
Kill(w) ==
    /\ isRunning[w]
    /\ isRunning' = [isRunning EXCEPT ![w] = FALSE]
    /\ pollTimer' = [pollTimer EXCEPT ![w] = FALSE]
    /\ pc' = [pc EXCEPT ![w] = "none"]
    /\ job' = [job EXCEPT ![w] = 0]
    /\ bugId' = [bugId EXCEPT ![w] = 0]
    /\ bug' = [bug EXCEPT ![w] = NoBug]
    /\ result' = [result EXCEPT ![w] = NoResult]
    /\ response' = [response EXCEPT ![w] = NoResponse]
    /\ codeContext' = [codeContext EXCEPT ![w] = <<>>]
    /\ err' = [err EXCEPT ![w] = NULL]
    /\ failedAt' = [failedAt EXCEPT ![w] = "none"]
    /\ outcome' = [outcome EXCEPT ![w] = "none"]
    /\ cycleFaults' = [cycleFaults EXCEPT ![w] = 0]
    /\ UNCHANGED <<store, api, ghosts, inputs>>

\* the timer fires and calls poll(): return when not running, else processNextJob
Poll(w) ==
    /\ pollTimer[w]
    /\ pc[w] = "none"
    /\ pollTimer' = [pollTimer EXCEPT ![w] = FALSE]
    /\ pc' = [pc EXCEPT ![w] = IF isRunning[w] THEN "findFirst" ELSE "none"]
    /\ UNCHANGED <<store, api, isRunning, locals, ghosts, inputs>>

\* poll() after processNextJob has returned: setTimeout(poll, POLL_INTERVAL_MS)
Schedule(w) ==
    /\ pc[w] = "schedule"
    /\ pollTimer' = [pollTimer EXCEPT ![w] = TRUE]
    /\ pc' = [pc EXCEPT ![w] = "none"]
    /\ job' = [job EXCEPT ![w] = 0]
    /\ bugId' = [bugId EXCEPT ![w] = 0]
    /\ bug' = [bug EXCEPT ![w] = NoBug]
    /\ result' = [result EXCEPT ![w] = NoResult]
    /\ response' = [response EXCEPT ![w] = NoResponse]
    /\ codeContext' = [codeContext EXCEPT ![w] = <<>>]
    /\ err' = [err EXCEPT ![w] = NULL]
    /\ failedAt' = [failedAt EXCEPT ![w] = "none"]
    /\ outcome' = [outcome EXCEPT ![w] = "none"]
    /\ cycleFaults' = [cycleFaults EXCEPT ![w] = 0]
    /\ UNCHANGED <<store, api, isRunning, ghosts, inputs>>

\* ------------------------------------------------------------------ processNextJob
\* a catch block without the write that records the error on the Job
CatchEntrySkipJob(j, b) == IF b # 0 THEN "catchBug" ELSE "schedule"

\* where the catch block starts for locals job = j, bugId = b
CatchEntry(j, b) == IF j # 0 THEN "catchJob" ELSE IF b # 0 THEN "catchBug" ELSE "schedule"

\* an error thrown at position `at` inside the try, with locals job = j, bugId = b
Throw(w, at, msg, j, b) ==
    /\ err' = [err EXCEPT ![w] = msg]
    /\ failedAt' = [failedAt EXCEPT ![w] = at]
    /\ pc' = [pc EXCEPT ![w] = CatchEntry(j, b)]
    /\ outcome' = [outcome EXCEPT ![w] = IF CatchEntry(j, b) = "schedule" THEN "failed" ELSE "none"]

\* a store call of worker w rejects
Fault(w) ==
    /\ CanFail
    /\ faultsLeft' = faultsLeft - 1
    /\ cycleFaults' = [cycleFaults EXCEPT ![w] = @ + 1]

\* a poll() that returns without arming the next timer
ReturnUnscheduled(w, how) ==
    /\ pc' = [pc EXCEPT ![w] = "none"]
    /\ outcome' = [outcome EXCEPT ![w] = how]

\* processNextJob returns
Return(w, how) ==
    /\ pc' = [pc EXCEPT ![w] = "schedule"]
    /\ outcome' = [outcome EXCEPT ![w] = how]

\* job = await prisma.job.findFirst(...); if (!job) return
FindFirst(w) ==
    /\ pc[w] = "findFirst"
    /\ \/ /\ FindFirstQueued(jobs) = 0
          /\ Return(w, "noJob")
          /\ UNCHANGED <<faultsLeft, job, err, failedAt, cycleFaults>>
       \/ /\ FindFirstQueued(jobs) # 0
          /\ job' = [job EXCEPT ![w] = FindFirstQueued(jobs)]
          /\ pc' = [pc EXCEPT ![w] = "markProcessing"]
          /\ UNCHANGED <<faultsLeft, err, failedAt, outcome, cycleFaults>>
       \/ /\ Fault(w)
          /\ Throw(w, "findFirst", MsgStore, 0, 0)
          /\ UNCHANGED job
    /\ UNCHANGED <<jobs, bugs, api, life, bugId, bug, result, response, codeContext, inputs, ghosts>>

\* await prisma.job.update(status 'processing'); payload = JSON.parse(job.payload);
\* bugId = payload.bugId; if (!bugId) throw
MarkProcessing(w) ==
    /\ pc[w] = "markProcessing"
    /\ LET j == job[w]
           p == jobs[j].payload
       IN \/ /\ jobs' = JobSetStatus(jobs, j, "processing")
             /\ UNCHANGED <<faultsLeft, cycleFaults>>
             /\ IF ~p.parses
                THEN Throw(w, "parse", MsgSyntax, j, 0) /\ UNCHANGED bugId
                ELSE IF p.bugId = 0
                THEN Throw(w, "parse", MsgMissingBugId, j, 0) /\ UNCHANGED bugId
                ELSE /\ bugId' = [bugId EXCEPT ![w] = p.bugId]
                     /\ pc' = [pc EXCEPT ![w] = "findBug"]
                     /\ UNCHANGED <<err, failedAt, outcome>>
          \/ /\ Fault(w)
             /\ Throw(w, "markProcessing", MsgStore, j, 0)
             /\ UNCHANGED <<jobs, bugId>>
    /\ UNCHANGED <<bugs, api, life, job, bug, result, response, codeContext, inputs, ghosts>>

\* bug = await prisma.bug.findUnique(...); if (!bug) throw; the idempotency check;
\* on the not-yet-analyzed branch codeContext = discoverCodeContext(bug.url) and
\* the construction of bugRecord, which await nothing
FindBug(w) ==
    /\ pc[w] = "findBug"
    /\ LET j == job[w]
           b == bugId[w]
       IN \/ /\ b \notin BugIds
             /\ Throw(w, "findBug", MsgNotFound, j, b)
             /\ UNCHANGED <<faultsLeft, cycleFaults, bug, codeContext>>
          \/ /\ b \in BugIds
             /\ bug' = [bug EXCEPT ![w] = bugs[b]]
             /\ pc' = [pc EXCEPT ![w] = IF AlreadyAnalyzed(bugs[b]) THEN "skipDone" ELSE "analyze"]
             /\ codeContext' = [codeContext EXCEPT ![w] =
                    IF AlreadyAnalyzed(bugs[b]) THEN @ ELSE ContextOf[bugUrl, tree]]
             /\ UNCHANGED <<faultsLeft, cycleFaults, err, failedAt, outcome>>
          \/ /\ Fault(w)
             /\ Throw(w, "findBug", MsgStore, j, b)
             /\ UNCHANGED <<bug, codeContext>>
    /\ UNCHANGED <<jobs, bugs, api, life, job, bugId, result, response, inputs, ghosts>>

\* already analyzed: await prisma.job.update(status 'done'); return
SkipDone(w) ==
    /\ pc[w] = "skipDone"
    /\ \/ /\ jobs' = JobSetStatus(jobs, job[w], "done")
          /\ Return(w, "skipped")
          /\ UNCHANGED <<faultsLeft, cycleFaults, err, failedAt>>
       \/ /\ Fault(w)
          /\ Throw(w, "skipDone", MsgStore, job[w], bugId[w])
          /\ UNCHANGED jobs
    /\ UNCHANGED <<bugs, api, life, job, bugId, bug, result, response, codeContext, inputs, ghosts>>

\* result = await this.provider.analyze(...): resolves, or rejects
Analyze(w) ==
    /\ pc[w] = "analyze"
    /\ analyzers' = [analyzers EXCEPT ![job[w]] = @ \cup {w}]
    /\ \/ /\ \E r \in ProviderResults : result' = [result EXCEPT ![w] = r]
          /\ pc' = [pc EXCEPT ![w] = "updateBug"]
          /\ UNCHANGED <<err, failedAt, outcome>>
       \/ /\ Throw(w, "analyze", MsgProvider, job[w], bugId[w])
          /\ UNCHANGED result
    /\ UNCHANGED <<store, api, life, job, bugId, bug, response, codeContext, inputs, cycleFaults, writers>>

\* result = await this.provider.analyze(...) with the Gemini provider: analyze
\* throws for the reply, or the response text is parsed into the result
AnalyzeGemini(w) ==
    /\ pc[w] = "analyze"
    /\ analyzers' = [analyzers EXCEPT ![job[w]] = @ \cup {w}]
    /\ \E reply \in GeminiReplies :
          IF analyzeError(reply) = NULL
          THEN /\ response' = [response EXCEPT ![w] = reply.content]
               /\ result' = [result EXCEPT ![w] = parseResponse(reply.content)]
               /\ pc' = [pc EXCEPT ![w] = "updateBug"]
               /\ UNCHANGED <<err, failedAt, outcome>>
          ELSE /\ Throw(w, "analyze", analyzeError(reply), job[w], bugId[w])
               /\ UNCHANGED <<result, response>>
    /\ UNCHANGED <<store, api, life, job, bugId, bug, cycleFaults, writers, codeContext, inputs>>

\* a write of the analysis that replaces the whole row
BugSetAnalysisReplace(bs, id, r) ==
    [bs EXCEPT ![id] = [NoBug EXCEPT !.status = "analyzed", !.aiAnalysis = r.analysis,
                                     !.aiPatchDiff = r.diff, !.confidence = r.confidence,
                                     !.aiProvider = r.provider]]

\* prisma.bug.update({where: {id}, data: {status: 'analyzed', aiAnalysis, ...}})
BugSetAnalysis(bs, id, r) ==
    [bs EXCEPT ![id].status = Persisted(r).status,
               ![id].aiAnalysis = Persisted(r).aiAnalysis,
               ![id].aiPatchDiff = Persisted(r).aiPatchDiff,
               ![id].confidence = Persisted(r).confidence,
               ![id].aiProvider = Persisted(r).aiProvider]

\* await prisma.bug.update(...) with the analysis results
UpdateBug(w) ==
    /\ pc[w] = "updateBug"
    /\ \/ /\ bugs' = BugSetAnalysis(bugs, bugId[w], result[w])
          /\ writers' = [writers EXCEPT ![job[w]] = @ \cup {w}]
          /\ pc' = [pc EXCEPT ![w] = "markDone"]
          /\ UNCHANGED <<faultsLeft, cycleFaults, err, failedAt, outcome>>
       \/ /\ Fault(w)
          /\ Throw(w, "updateBug", MsgStore, job[w], bugId[w])
          /\ UNCHANGED <<bugs, writers>>
    /\ UNCHANGED <<jobs, api, life, job, bugId, bug, result, response, codeContext, inputs, analyzers>>

\* await prisma.job.update(status 'done') after the analysis was persisted
MarkDone(w) ==
    /\ pc[w] = "markDone"
    /\ \/ /\ jobs' = JobSetStatus(jobs, job[w], "done")
          /\ Return(w, "completed")
          /\ UNCHANGED <<faultsLeft, cycleFaults, err, failedAt>>
       \/ /\ Fault(w)
          /\ Throw(w, "markDone", MsgStore, job[w], bugId[w])
          /\ UNCHANGED jobs
    /\ UNCHANGED <<bugs, api, life, job, bugId, bug, result, response, codeContext, inputs, ghosts>>

\* a catch block whose Job write has no .catch: its rejection leaves the catch
\* block before the Bug write
CatchJobRethrow(w) ==
    /\ pc[w] = "catchJob"
    /\ \/ /\ jobs' = JobSetError(jobs, job[w], err[w])
          /\ pc' = [pc EXCEPT ![w] = CatchEntry(0, bugId[w])]
          /\ outcome' = [outcome EXCEPT ![w] = IF bugId[w] # 0 THEN "none" ELSE "failed"]
          /\ UNCHANGED <<faultsLeft, cycleFaults>>
       \/ /\ Fault(w)
          /\ pc' = [pc EXCEPT ![w] = "schedule"]
          /\ outcome' = [outcome EXCEPT ![w] = "failed"]
          /\ UNCHANGED jobs
    /\ UNCHANGED <<bugs, api, life, job, bugId, bug, result, response, codeContext, inputs, err, failedAt, ghosts>>

\* catch: if (job) await prisma.job.update(status 'error', error: message).catch(log)
CatchJob(w) ==
    /\ pc[w] = "catchJob"
    /\ \/ /\ jobs' = JobSetError(jobs, job[w], err[w])
          /\ UNCHANGED <<faultsLeft, cycleFaults>>
       \/ /\ Fault(w)
          /\ UNCHANGED jobs
    /\ pc' = [pc EXCEPT ![w] = CatchEntry(0, bugId[w])]
    /\ outcome' = [outcome EXCEPT ![w] = IF bugId[w] # 0 THEN "none" ELSE "failed"]
    /\ UNCHANGED <<bugs, api, life, job, bugId, bug, result, response, codeContext, inputs, err, failedAt, ghosts>>

\* catch: if (bugId) await prisma.bug.update(status 'error').catch(log)
CatchBug(w) ==
    /\ pc[w] = "catchBug"
    /\ \/ /\ bugs' = BugSetError(bugs, bugId[w])
          /\ writers' = [writers EXCEPT ![job[w]] = IF bugId[w] \in BugIds THEN @ \cup {w} ELSE @]
          /\ UNCHANGED <<faultsLeft, cycleFaults>>
       \/ /\ bugId[w] \in BugIds
          /\ Fault(w)
          /\ UNCHANGED <<bugs, writers>>
    /\ Return(w, "failed")
    /\ UNCHANGED <<jobs, api, life, job, bugId, bug, result, response, codeContext, inputs, err, failedAt, analyzers>>

\* ------------------------------------------------------------------ specification
WorkerStep(w) ==
    \/ Start(w) \/ Stop(w) \/ Poll(w) \/ Schedule(w)
    \/ FindFirst(w) \/ MarkProcessing(w) \/ FindBug(w) \/ SkipDone(w)
    \/ Analyze(w) \/ UpdateBug(w) \/ MarkDone(w) \/ CatchJob(w) \/ CatchBug(w)

\* a worker whose Jobs all come from the API, each for a Bug not yet analyzed
WorkerStepApi(w) ==
    \/ Start(w) \/ Stop(w) \/ Poll(w) \/ Schedule(w)
    \/ FindFirst(w) \/ MarkProcessing(w) \/ FindBug(w)
    \/ Analyze(w) \/ UpdateBug(w) \/ MarkDone(w) \/ CatchJob(w) \/ CatchBug(w)

Next ==
    \/ CreateBug
    \/ CreateJob
    \/ InsertJob
    \/ \E w \in Workers : WorkerStep(w)

Spec == Init /\ [][Next]_vars

\* two workers and the API over a store whose calls all succeed

NextRace ==
    \/ CreateBug
    \/ CreateJob
    \/ \E w \in Workers : WorkerStep(w)

SpecRace == InitReliable /\ [][NextRace]_vars

\* one worker process, the API and direct inserts over a store that can fail
NextSolo ==
    \/ CreateBug
    \/ CreateJob
    \/ InsertJob
    \/ WorkerStep("w1")

SpecSolo == Init /\ [][NextSolo]_vars

\* one worker process that can be killed and started again
NextRestart ==
    \/ NextSolo
    \/ Kill("w1")

SpecRestart == Init /\ [][NextRestart]_vars

\* the API with any client, over a store that can fail
NextApi ==
    \/ Submit
    \/ CreateJob
    \/ ListBugs

SpecApi == Init /\ [][NextApi]_vars

\* the API with the clients of both projects and one worker process, over a
\* store whose calls all succeed
NextList ==
    \/ SubmitAccepted
    \/ CreateJob
    \/ ListBugs
    \/ WorkerStepApi("w1")

SpecList == InitReliable /\ [][NextList]_vars

\* the steps of a worker process that is never stopped, its Jobs all coming
\* from the API, each for a Bug not yet analyzed
Runs(w) ==
    \/ Start(w) \/ Poll(w) \/ Schedule(w)
    \/ FindFirst(w) \/ MarkProcessing(w) \/ FindBug(w)
    \/ Analyze(w) \/ UpdateBug(w) \/ MarkDone(w) \/ CatchJob(w) \/ CatchBug(w)

\* a worker process that is killed in the cycle in which it has claimed a Job:
\* its steps up to the 'processing' write
ClaimsAndDies(w) ==
    \/ Start(w) \/ FindFirst(w) \/ MarkProcessing(w) \/ Kill(w)

\* the API, a worker process w1 that keeps running and a worker process w2 that
\* is killed and started again, over a store whose calls all succeed
NextProgress ==
    \/ CreateBug
    \/ CreateJob
    \/ Runs("w1")
    \/ ClaimsAndDies("w2")

\* w1's timer fires and each of its awaited calls returns: the step of w1 that
\* is enabled is eventually taken; nothing is assumed of the API or of w2
SpecProgress == InitReliable /\ [][NextProgress]_vars /\ WF_vars(Runs("w1"))

\* one worker process whose provider is the Gemini provider, over a store whose
\* calls all succeed
WorkerStepGemini(w) ==
    \/ Start(w) \/ Stop(w) \/ Poll(w) \/ Schedule(w)
    \/ FindFirst(w) \/ MarkProcessing(w) \/ FindBug(w) \/ SkipDone(w)
    \/ AnalyzeGemini(w) \/ UpdateBug(w) \/ MarkDone(w) \/ CatchJob(w) \/ CatchBug(w)

NextGemini ==
    \/ CreateBug
    \/ CreateJob
    \/ InsertJob
    \/ WorkerStepGemini("w1")

SpecGemini == InitReliable /\ [][NextGemini]_vars

\* one worker and the API over a store that never fails, for every file tree and
\* URL of the reports
InitContext == InitStore(0) /\ tree \in Trees /\ bugUrl \in Urls

NextContext ==
    \/ CreateBug
    \/ CreateJob
    \/ WorkerStepApi("w1")

SpecContext == InitContext /\ [][NextContext]_vars

\* the widget in a page: the page logs and its requests fail, then the form is
\* submitted
NextWidget ==
    \/ PageLog
    \/ PageNetworkError
    \/ SubmitBugReport

SpecWidget == InitReliable /\ [][NextWidget]_vars

TypeOK ==
    /\ \A j \in JobIds : jobs[j].status \in {"queued", "processing", "done", "error"}
    /\ \A b \in BugIds : bugs[b].status \in {"queued", "analyzed", "error"}
    /\ faultsLeft \in 0..MaxFaults
    /\ Len(analyzers) = Len(jobs) /\ Len(writers) = Len(jobs)
    /\ \A w \in Workers : job[w] \in 0..Len(jobs)

\* ------------------------------------------------------------------ claims
\* worker w has marked its Job processing and goes on to process it
Claimed(w) == pc[w] \in {"findBug", "skipDone", "analyze", "updateBug", "markDone"}

\* C1: of the workers racing the claim step for one queued Job exactly one obtains
\* it: no two distinct workers have claimed, and are processing, the same Job.
C1_AtMostOneClaimant ==
    \A w1, w2 \in Workers :
        (w1 # w2 /\ Claimed(w1) /\ Claimed(w2)) => job[w1] # job[w2]

\* C2: FIFO. Whenever a queued Job is claimed (its status goes from queued to
\* processing), no queued ANALYZE_BUG Job has a smaller createdAt.
C2_FifoOrdering ==
    [][\A j \in JobIds :
          (jobs[j].status = "queued" /\ jobs'[j].status = "processing")
              => \A k \in JobIds :
                    (jobs[k].status = "queued" /\ jobs[k].type = "ANALYZE_BUG")
                        => jobs[j].createdAt <= jobs[k].createdAt]_vars

\* two Jobs were queued and the second is claimed after the first has settled
C2_Witness ==
    /\ Len(jobs) >= 2
    /\ jobs[1].createdAt < jobs[2].createdAt
    /\ jobs[1].status = "done"
    /\ \E w \in Workers : job[w] = 2 /\ Claimed(w) /\ jobs[2].status = "processing"

LegalJobTransitions ==
    {<<"queued", "processing">>, <<"processing", "done">>, <<"processing", "error">>}

\* C3: every change of a Job's status is queued->processing, processing->done or
\* processing->error; so done and error are final.
C3_JobStateMachine ==
    [][\A j \in JobIds :
          jobs'[j].status # jobs[j].status
              => <<jobs[j].status, jobs'[j].status>> \in LegalJobTransitions]_vars

\* C4: a done-write (after the analysis, or on the already-analyzed branch) that
\* hits a Job already done leaves it done and records no error message on it.
C4_IdempotentCompletion ==
    [][\A w \in Workers :
          (pc[w] \in {"markDone", "skipDone"} /\ pc'[w] = "schedule"
              /\ jobs[job[w]].status = "done")
              => (jobs'[job[w]].status = "done"
                    /\ jobs'[job[w]].error = jobs[job[w]].error)]_vars

\* two workers have each marked the same Job done; it is done and carries no error
C4_Witness ==
    \E w1, w2 \in Workers :
        /\ w1 # w2
        /\ job[w1] # 0 /\ job[w1] = job[w2]
        /\ pc[w1] = "schedule" /\ outcome[w1] = "completed"
        /\ pc[w2] = "schedule" /\ outcome[w2] \in {"completed", "skipped"}
        /\ jobs[job[w1]].status = "done"
        /\ jobs[job[w1]].error = NULL

\* C5: when the Bug loaded for a claimed Job is analyzed with a non-empty
\* aiAnalysis, the cycle never invokes the provider and, its store calls
\* succeeding, only marks the Job done: it returns with the Job done and the Bug
\* row as it was loaded, not written by this worker.
C5_IdempotentAnalysis ==
    \A w \in Workers :
        (bug[w].status = "analyzed" /\ bug[w].aiAnalysis \notin {NULL, ""})
            => /\ w \notin analyzers[job[w]]
               /\ cycleFaults[w] = 0
                    => /\ pc[w] \in {"skipDone", "schedule"}
                       /\ pc[w] = "schedule"
                            => /\ outcome[w] = "skipped"
                               /\ jobs[job[w]].status = "done"
                               /\ bugs[bugId[w]] = bug[w]
                               /\ w \notin writers[job[w]]

\* a cycle has returned through the already-analyzed branch
C5_Witness ==
    \E w \in Workers :
        /\ pc[w] = "schedule" /\ outcome[w] = "skipped"
        /\ bug[w].status = "analyzed" /\ bug[w].aiAnalysis = "ok"
        /\ jobs[job[w]].status = "done"

\* C6: a cycle that loaded a queued Bug, got a result from the provider and had no
\* store call fail ends with the Bug analyzed and carrying the result (diff "NONE"
\* stored as null), and the Job done.
C6_SuccessPath ==
    \A w \in Workers :
        (pc[w] = "schedule" /\ bug[w].status = "queued" /\ result[w] \in ProviderResults
            /\ cycleFaults[w] = 0)
            => /\ outcome[w] = "completed"
               /\ bugs[bugId[w]].status = "analyzed"
               /\ bugs[bugId[w]].aiAnalysis = result[w].analysis
               /\ bugs[bugId[w]].aiPatchDiff =
                      (IF result[w].diff = "NONE" THEN NULL ELSE result[w].diff)
               /\ bugs[bugId[w]].confidence = result[w].confidence
               /\ bugs[bugId[w]].aiProvider = result[w].provider
               /\ jobs[job[w]].status = "done"

\* scenario A: {analysis "ok", diff "NONE", confidence 0.9} has been persisted
C6_Witness ==
    \E w \in Workers :
        /\ pc[w] = "schedule" /\ outcome[w] = "completed" /\ bug[w].status = "queued"
        /\ result[w].diff = "NONE"
        /\ bugs[bugId[w]].status = "analyzed"
        /\ bugs[bugId[w]].aiPatchDiff = NULL
        /\ bugs[bugId[w]].confidence = <<9000>>
        /\ jobs[job[w]].status = "done"

\* C7: a cycle in which provider.analyze threw, and whose error writes succeeded,
\* ends with the Bug in error and the Job in error carrying the provider's
\* (non-empty) message; and a Job in error is not changed and not selected by any
\* later cycle.
C7_ProviderFailure ==
    [][/\ \A w \in Workers :
            (pc'[w] = "schedule" /\ failedAt'[w] = "analyze" /\ cycleFaults'[w] = 0)
                => /\ bugs'[bugId'[w]].status = "error"
                   /\ jobs'[job'[w]].status = "error"
                   /\ jobs'[job'[w]].error \notin {NULL, ""}
                   /\ jobs'[job'[w]].error = MsgProvider
       /\ \A j \in JobIds :
            jobs[j].status = "error"
                => /\ jobs'[j] = jobs[j]
                   /\ \A w \in Workers : job'[w] = j => job[w] = j]_vars

\* after the provider failure a later cycle found nothing to claim
C7_Witness ==
    \E w \in Workers, j \in JobIds :
        /\ pc[w] = "schedule" /\ outcome[w] = "noJob"
        /\ jobs[j].status = "error" /\ jobs[j].error = MsgProvider
        /\ jobs[j].payload.bugId \in BugIds
        /\ bugs[jobs[j].payload.bugId].status = "error"

\* the Job of worker w's cycle before and after the step (0 outside a cycle)
CycleJob(w) == IF job[w] # 0 THEN job[w] ELSE job'[w]

\* C8: no step of a cycle whose Job's payload names a Bug that does not exist
\* creates or changes a Bug, and the cycle, its store calls succeeding, ends with
\* the Job in error with the not-found message.
C8_MissingBug ==
    [][\A w \in Workers :
          (pc'[w] # pc[w] /\ CycleJob(w) # 0
              /\ jobs[CycleJob(w)].payload.parses
              /\ jobs[CycleJob(w)].payload.bugId # 0
              /\ jobs[CycleJob(w)].payload.bugId \notin BugIds)
              => /\ bugs' = bugs
                 /\ (pc'[w] = "schedule" /\ cycleFaults'[w] = 0)
                      => /\ jobs'[CycleJob(w)].status = "error"
                         /\ jobs'[CycleJob(w)].error = MsgNotFound]_vars

\* a cycle on a Job with a dangling bugId has ended, with a Bug in the table
C8_Witness ==
    \E w \in Workers :
        /\ pc[w] = "schedule" /\ failedAt[w] = "findBug" /\ err[w] = MsgNotFound
        /\ bugId[w] \notin BugIds
        /\ jobs[job[w]].status = "error" /\ jobs[job[w]].error = MsgNotFound
        /\ \E b \in BugIds : bugs[b].status # "error"

\* C9: when the Bug write succeeded and the write marking the Job done failed, the
\* cycle ends with the Bug still analyzed with the persisted aiAnalysis, and the
\* Job at worst left in processing.
C9_SuccessNotLost ==
    \A w \in Workers :
        (pc[w] = "schedule" /\ failedAt[w] = "markDone")
            => /\ bugs[bugId[w]].status = "analyzed"
               /\ bugs[bugId[w]].aiAnalysis = result[w].analysis
               /\ jobs[job[w]].status \in {"processing", "done"}

\* C10: for each Job at most one worker writes its Bug and at most one worker
\* invokes the provider.
C10_ExclusiveOwnership ==
    \A j \in JobIds : Cardinality(writers[j]) <= 1 /\ Cardinality(analyzers[j]) <= 1

\* the positions of a worker inside processNextJob
InCycle == {"findFirst", "markProcessing", "findBug", "skipDone", "analyze",
            "updateBug", "markDone", "catchJob", "catchBug"}

\* C11: whatever fails inside a cycle, the cycle leaves processNextJob only to the
\* point of poll() that schedules the next cycle; that point arms the timer, which
\* was not pending, and a timer is armed nowhere else, so exactly one next cycle
\* is scheduled and none is pending while a cycle runs.
C11_PollLoopResilience ==
    [][\A w \in Workers :
          /\ (pc[w] \in InCycle /\ pc'[w] \notin InCycle) => pc'[w] = "schedule"
          /\ (pc[w] = "schedule" /\ pc'[w] # "schedule")
                => (pc'[w] = "none" /\ ~pollTimer[w] /\ pollTimer'[w])
          /\ (pollTimer'[w] /\ ~pollTimer[w]) => pc[w] = "schedule"
          /\ pollTimer'[w] => pc'[w] = "none"]_vars

\* the write recording the error was itself rejected (the Job stays processing
\* with no cycle running) and the next cycle is nevertheless scheduled
C11_Witness ==
    /\ pc["w1"] = "none" /\ pollTimer["w1"] /\ isRunning["w1"]
    /\ faultsLeft = 0
    /\ \E j \in JobIds : jobs[j].status = "processing"

C13_NoRequeue ==
    [][(jobs' # jobs \/ job' # job)
          => /\ \A j \in JobIds : jobs[j].status # "queued" => jobs'[j].status # "queued"
             /\ \A w \in Workers, j \in JobIds :
                   (job'[w] = j /\ job[w] # j) => jobs[j].status = "queued"
             /\ \A j \in JobIds :
                   (jobs[j].status \in {"error", "processing"} /\ \A w \in Workers : job[w] # j)
                       => jobs'[j] = jobs[j]]_vars

\* no store call has failed, the worker was killed while its Job was processing,
\* and a cycle of the restarted worker has found nothing to claim
C13_Witness ==
    /\ faultsLeft = MaxFaults
    /\ pc["w1"] = "schedule" /\ outcome["w1"] = "noJob"
    /\ \E j \in JobIds : jobs[j].status = "processing" /\ jobs[j].type = "ANALYZE_BUG"

\* C14: every confidence persisted on a Bug lies in [0.1, 1.0]; and the value a
\* cycle has just persisted is the parsed number, divided by 100 when it is
\* greater than 1, then clamped to [0.1, 1.0]: "85" persists as 0.85 and "-0.2"
\* as 0.1.
C14_ConfidenceClamp ==
    /\ \A b \in BugIds :
          bugs[b].confidence # NoConfidence
              => (bugs[b].confidence[1] >= 1000 /\ bugs[b].confidence[1] <= 10000)
    /\ \A w \in Workers :
          (pc[w] = "markDone" /\ response[w].confidence # NULL
              /\ parseFloat(response[w].confidence) # <<>>)
              => LET v == parseFloat(response[w].confidence)[1]
                     scaled == IF v > 10000 THEN v \div 100 ELSE v
                     persisted == bugs[bugId[w]].confidence[1]
                 IN /\ persisted = IF scaled > 10000 THEN 10000
                                    ELSE IF scaled < 1000 THEN 1000 ELSE scaled
                    /\ response[w].confidence = "85" => persisted = 8500
                    /\ response[w].confidence = "-0.2" => persisted = 1000

\* one Bug carries 0.85 from a reported 85 and the cycle has just persisted 0.1
\* for a reported -0.2
C14_Witness ==
    /\ \E b \in BugIds : bugs[b].confidence = <<8500>>
    /\ pc["w1"] = "markDone" /\ response["w1"].confidence = "-0.2"
    /\ bugs[bugId["w1"]].confidence = <<1000>>

\* C15: when the patch text of the provider's response is the word NONE in any
\* letter case the cycle persists aiPatchDiff = null; any other non-empty patch
\* text is persisted unchanged.
C15_DiffNormalization ==
    \A w \in Workers :
        pc[w] = "markDone"
            => /\ response[w].patch \in {"NONE", "none", "None"}
                    => bugs[bugId[w]].aiPatchDiff = NULL
               /\ response[w].patch \notin {NULL, "", "NONE", "none", "None"}
                    => bugs[bugId[w]].aiPatchDiff = response[w].patch

\* a patch text "None" has just been persisted as null, and another Bug carries
\* the patch text "none needed" unchanged
C15_Witness ==
    /\ pc["w1"] = "markDone" /\ response["w1"].patch = "None"
    /\ bugs[bugId["w1"]].status = "analyzed" /\ bugs[bugId["w1"]].aiPatchDiff = NULL
    /\ \E b \in BugIds : bugs[b].aiPatchDiff = "none needed"

\* C16: a Bug's status becomes analyzed or error only from analyzing, the status
\* it is given when its Job is claimed: a Bug whose Job a worker has marked
\* processing and is working on is analyzing, analyzed or error.
C16_VisibleProgress ==
    [][/\ \A b \in BugIds :
             (bugs'[b].status # bugs[b].status /\ bugs'[b].status \in {"analyzed", "error"})
                 => bugs[b].status = "analyzing"
       /\ \A w \in Workers :
             (pc'[w] \in {"analyze", "updateBug"} /\ bugId'[w] \in BugIds)
                 => bugs'[bugId'[w]].status \in {"analyzing", "analyzed", "error"}]_vars

\* the step handles a request: the API is idle and takes a request
Handles(method) ==
    /\ apiPc = "idle"
    /\ req'.method = method
    /\ (req' # req \/ res' # res \/ apiPc' # apiPc \/ faultsLeft' # faultsLeft)

\* C17: a POST /api/bugs within the rate limit with the secret key of a project,
\* that project's publicKey and a valid payload, whose store calls succeed,
\* creates one Bug, queued and owned by that project, then one queued
\* ANALYZE_BUG Job whose payload bugId is that Bug's id, the only Job for it,
\* and answers 201 {id: the Bug's id, status: "queued"}.
C17_Submission ==
    [][/\ (Handles("POST") /\ req'.valid /\ res'.code # 429 /\ faultsLeft' = faultsLeft
            /\ \E p \in ProjectIds : /\ projects[p].secretKey = req'.key
                                       /\ projects[p].publicKey = req'.projectPublicKey)
           => /\ apiPc' = "createJob"
              /\ Len(bugs') = Len(bugs) + 1
              /\ \A b \in BugIds : bugs'[b] = bugs[b]
              /\ bugs'[Len(bugs')].status = "queued"
              /\ \A p \in ProjectIds :
                    projects[p].secretKey = req'.key => bugs'[Len(bugs')].projectId = p
              /\ jobs' = jobs
       /\ (apiPc = "createJob" /\ apiPc' = "idle" /\ faultsLeft' = faultsLeft)
           => /\ bugs' = bugs
              /\ Len(jobs') = Len(jobs) + 1
              /\ \A j \in JobIds : jobs'[j] = jobs[j]
              /\ jobs'[Len(jobs')].type = "ANALYZE_BUG"
              /\ jobs'[Len(jobs')].status = "queued"
              /\ jobs'[Len(jobs')].payload = [parses |-> TRUE, bugId |-> Len(bugs)]
              /\ Cardinality({j \in 1..Len(jobs') : jobs'[j].payload.bugId = Len(bugs)}) = 1
              /\ bugs[Len(bugs)].status = "queued"
              /\ res' = [code |-> 201, error |-> NULL, id |-> Len(bugs),
                         status |-> "queued", bugs |-> <<>>]]_vars

\* the second project's submission has been answered 201 with the id of its Bug
C17_Witness ==
    /\ req.method = "POST" /\ req.key = "secret_test_key"
    /\ res.code = 201 /\ res.id \in BugIds /\ res.status = "queued"
    /\ bugs[res.id].projectId = 2 /\ bugs[res.id].status = "queued"
    /\ \E j \in JobIds : jobs[j].payload.bugId = res.id /\ jobs[j].status = "queued"

C19_Listing ==
    req.method = "GET"
        => /\ (req.key = NULL \/ \A p \in ProjectIds : projects[p].secretKey # req.key)
                => (res.code = 401 /\ res.bugs = <<>> /\ res.id = 0)
           /\ \A i \in 1..Len(res.bugs) :
                /\ res.bugs[i].id \in BugIds
                /\ \A p \in ProjectIds :
                      projects[p].secretKey = req.key <=> bugs[res.bugs[i].id].projectId = p
                /\ req.status # NULL => res.bugs[i].status = req.status

\* both projects have an analyzed Bug and the demo project's listing with
\* status=analyzed returned exactly its own
C19_Witness ==
    /\ req.method = "GET" /\ req.key = "secret_demo_key" /\ req.status = "analyzed"
    /\ res.code = 200 /\ Len(res.bugs) = 1
    /\ bugs[res.bugs[1].id].projectId = 1 /\ res.bugs[1].status = "analyzed"
    /\ \E b \in BugIds : bugs[b].projectId = 2 /\ bugs[b].status = "analyzed"

\* C20: whenever no submission is in progress, each Bug has exactly one Job whose
\* payload bugId references it.
C20_AtomicCreation ==
    apiPc = "idle"
        => \A b \in BugIds : Cardinality({j \in JobIds : jobs[j].payload.bugId = b}) = 1

\* C21: no step of a cycle whose Job's payload cannot be parsed or carries no
\* bugId reads or changes a Bug, and the cycle, its store calls succeeding, ends
\* with the Job in error with a non-empty message that describes the failure.
C21_MalformedPayload ==
    [][\A w \in Workers :
          (pc'[w] # pc[w] /\ CycleJob(w) # 0
              /\ (~jobs[CycleJob(w)].payload.parses \/ jobs[CycleJob(w)].payload.bugId = 0))
              => /\ bugs' = bugs
                 /\ bug'[w] = NoBug
                 /\ bugId'[w] = 0
                 /\ writers'[CycleJob(w)] = writers[CycleJob(w)]
                 /\ (pc'[w] = "schedule" /\ cycleFaults'[w] = 0)
                      => /\ jobs'[CycleJob(w)].status = "error"
                         /\ jobs'[CycleJob(w)].error \notin {NULL, ""}
                         /\ jobs'[CycleJob(w)].error =
                                IF jobs[CycleJob(w)].payload.parses
                                THEN MsgMissingBugId ELSE MsgSyntax]_vars

\* a cycle on a Job with unparsable payload has ended with the Job in error,
\* while a queued Bug sits in the table
C21_Witness ==
    /\ pc["w1"] = "schedule" /\ failedAt["w1"] = "parse" /\ err["w1"] = MsgSyntax
    /\ ~jobs[job["w1"]].payload.parses
    /\ jobs[job["w1"]].status = "error" /\ jobs[job["w1"]].error = MsgSyntax
    /\ \E b \in BugIds : bugs[b].status = "queued"

\* C22: the catch block's Job write, accepted or rejected, is followed by the Bug
\* write when bugId is known and by the return of processNextJob otherwise; the
\* Bug write, accepted or rejected, is followed by the return; and an accepted
\* Bug write sets the Bug to error.
C22_SecondaryFailures ==
    [][\A w \in Workers :
          /\ (pc[w] = "catchJob" /\ pc'[w] # pc[w])
                => pc'[w] = IF bugId[w] # 0 THEN "catchBug" ELSE "schedule"
          /\ (pc[w] = "catchBug" /\ pc'[w] # pc[w])
                => /\ pc'[w] = "schedule"
                   /\ outcome'[w] = "failed"
                   /\ (faultsLeft' = faultsLeft /\ bugId[w] \in BugIds)
                        => bugs'[bugId[w]].status = "error"]_vars

\* the Job's error write was rejected (the Job is still processing) and the
\* cycle has nevertheless written the Bug to error and returned
C22_Witness ==
    /\ pc["w1"] = "schedule" /\ outcome["w1"] = "failed" /\ failedAt["w1"] = "analyze"
    /\ cycleFaults["w1"] = 1
    /\ jobs[job["w1"]].status = "processing"
    /\ bugs[bugId["w1"]].status = "error"

\* C23: a Bug with status analyzed has a non-empty aiAnalysis, and a Bug becomes
\* analyzed only by the write of a cycle whose provider call has returned a
\* result.
C23_AnalyzedHasAnalysis ==
    [][\A b \in 1..Len(bugs') :
          bugs'[b].status = "analyzed"
              => /\ bugs'[b].aiAnalysis \notin {NULL, ""}
                 /\ (b \in BugIds /\ bugs[b].status # "analyzed")
                      => \E w \in Workers :
                            /\ pc[w] = "updateBug" /\ bugId[w] = b
                            /\ result[w] # NoResult
                            /\ w \in analyzers[job[w]]]_vars

LegalBugTransitions ==
    ({"new", "queued"} \X {"analyzing", "analyzed", "error"})
        \cup ({"analyzing"} \X {"analyzed", "error"})

\* C24: every change of a Bug's status is new/queued -> analyzing,
\* new/queued/analyzing -> analyzed or new/queued/analyzing -> error; so analyzed
\* and error are final.
C24_BugLifecycle ==
    [][\A b \in BugIds :
          bugs'[b].status # bugs[b].status
              => <<bugs[b].status, bugs'[b].status>> \in LegalBugTransitions]_vars

\* C25: with a store whose calls all succeed, for every Job that no cycle in
\* progress holds and whose payload names an existing Bug: Job queued implies
\* Bug queued, Job done implies Bug analyzed, Job error implies Bug error.
C25_BugJobConsistency ==
    \A j \in JobIds :
        (/\ \A w \in Workers : job[w] # j \/ pc[w] \in {"schedule", "none"}
         /\ jobs[j].payload.bugId \in BugIds)
            => LET b == bugs[jobs[j].payload.bugId]
               IN /\ jobs[j].status = "queued" => b.status = "queued"
                  /\ jobs[j].status = "done" => b.status = "analyzed"
                  /\ jobs[j].status = "error" => b.status = "error"

\* C26: shutdown. While a worker is stopped no new cycle of it begins, and a cycle
\* that is in flight when the worker is stopped, or afterwards, is not aborted:
\* it goes on to the end of processNextJob.
C26_Shutdown ==
    [][\A w \in Workers :
          /\ (~isRunning[w] /\ ~isRunning'[w] /\ pc[w] \notin InCycle)
                => pc'[w] \notin InCycle
          /\ (~isRunning'[w] /\ pc[w] \in InCycle)
                => pc'[w] \in InCycle \cup {"schedule"}]_vars

\* C27: a cycle whose findFirst succeeds and finds no queued ANALYZE_BUG Job ends
\* there without an error, without a Job, without a provider call, and with
\* every Job and every Bug as it was.
C27_EmptyCycle ==
    [][\A w \in Workers :
          (/\ pc[w] = "findFirst" /\ pc'[w] # pc[w]
           /\ faultsLeft' = faultsLeft
           /\ \A j \in JobIds : ~(jobs[j].status = "queued" /\ jobs[j].type = "ANALYZE_BUG"))
              => /\ pc'[w] = "schedule" /\ outcome'[w] = "noJob"
                 /\ err'[w] = NULL /\ failedAt'[w] = "none"
                 /\ job'[w] = 0 /\ result'[w] = NoResult
                 /\ jobs' = jobs /\ bugs' = bugs
                 /\ analyzers' = analyzers /\ writers' = writers]_vars

C27_Witness ==
    \E w \in Workers :
        /\ pc[w] = "schedule" /\ outcome[w] = "noJob" /\ cycleFaults[w] = 0
        /\ \E j \in JobIds : jobs[j].status = "queued" /\ jobs[j].type = "OTHER"
        /\ \E j \in JobIds : jobs[j].status = "done"

\* C28: frame of the pipeline. No step removes a Bug or a Job row; a Bug's columns
\* other than status, aiAnalysis, aiPatchDiff, confidence and aiProvider (here
\* projectId) never change; a Bug row changes only in a worker's bug.update for
\* that Bug; and no worker step adds a Bug or a Job row.
C28_PipelineFrame ==
    [][/\ Len(bugs') >= Len(bugs) /\ Len(jobs') >= Len(jobs)
       /\ \A b \in BugIds :
             /\ bugs'[b].projectId = bugs[b].projectId
             /\ bugs'[b] # bugs[b]
                   => \E w \in Workers : /\ pc[w] \in {"updateBug", "catchBug"}
                                          /\ pc'[w] # pc[w] /\ bugId[w] = b
       /\ (\E w \in Workers : pc'[w] # pc[w])
             => Len(bugs') = Len(bugs) /\ Len(jobs') = Len(jobs)]_vars

C28_Witness ==
    /\ \E b \in BugIds : bugs[b].status = "analyzed" /\ bugs[b].projectId = 2
    /\ \E b \in BugIds : bugs[b].status = "error" /\ bugs[b].projectId = 1

\* the directories the walk enters and reads: each directory on the way from the
\* root is readable, not named in skipDirs and within the depth cap
Entered(t, d) ==
    \A k \in 0..Len(d) :
        LET a == SubSeq(d, 1, k)
        IN a \notin t.denied /\ basename(a) \notin skipDirs /\ k <= MaxDepth

\* a readdirSync of the walk fails
IoError(t) ==
    \E d \in t.denied :
        /\ basename(d) \notin skipDirs /\ Len(d) <= MaxDepth
        /\ d # <<>> => Entered(t, SubSeq(d, 1, Len(d) - 1))

ScoreOf(url, p) == calculateRelevanceScore(p, p[Len(p)], UrlSegments(url))

\* the candidate files: regular files with a source extension and a positive
\* score in the directories the walk reads
Candidates(url, t) ==
    {p \in UNION {{Append(d, Entries(t, d)[i].name) :
                        i \in {k \in 1..Len(Entries(t, d)) : Entries(t, d)[k].isFile}} :
                   d \in {e \in Directories : Entered(t, e)}} :
        /\ extname(p[Len(p)]) \in {".ts", ".tsx", ".js", ".jsx", ".css"}
        /\ ScoreOf(url, p) > 0}

\* worker w reads a Bug that is not analyzed yet, the read succeeding
Discovers(w) ==
    /\ pc[w] = "findBug" /\ pc'[w] # pc[w] /\ faultsLeft' = faultsLeft
    /\ bugId[w] \in BugIds
    /\ ~(bugs[bugId[w]].status = "analyzed" /\ bugs[bugId[w]].aiAnalysis \notin {NULL, ""})

C30_RankedContext ==
    [][\A w \in Workers :
          Discovers(w)
              => LET r == codeContext'[w]
                     C == Candidates(bugUrl, tree)
                     R == {r[i] : i \in 1..Len(r)}
                 IN /\ Len(r) <= MaxContextFiles
                    /\ \A i, j \in 1..Len(r) : i # j => r[i] # r[j]
                    /\ \A i, j \in 1..Len(r) :
                          i < j => ScoreOf(bugUrl, r[i]) >= ScoreOf(bugUrl, r[j])
                    /\ R \subseteq C
                    /\ Len(r) = (IF Cardinality(C) < MaxContextFiles THEN Cardinality(C)
                                 ELSE MaxContextFiles)
                    /\ \A p \in R, q \in C \ R :
                          ScoreOf(bugUrl, p) >= ScoreOf(bugUrl, q)]_vars

C30_Witness ==
    \E w \in Workers :
        /\ pc[w] = "analyze" /\ tree.filler = 31 /\ tree.denied = {}
        /\ bugUrl = "https://app.test/Checkout?step=2"
        /\ Len(codeContext[w]) = MaxContextFiles
        /\ Cardinality(Candidates(bugUrl, tree)) > MaxContextFiles

\* the directory names the specification excludes from the scan
ExcludedNames == {"node_modules", "dist", ".git", "migrations", ".next", "build"}

\* C31: no path of a computed context has a directory named node_modules, dist,
\* .git, migrations, .next or build above its file, and none lies in a directory
\* deeper than the depth cap.
C31_ExcludedDirectories ==
    \A w \in Workers :
        \A i \in 1..Len(codeContext[w]) :
            LET p == codeContext[w][i]
            IN /\ \A k \in 1..(Len(p) - 1) : p[k] \notin ExcludedNames
               /\ Len(p) - 1 <= MaxDepth

\* C32: a call of the Gemini provider fails only for a transport error, an error
\* status or an error reported by the API, never for a response that was
\* received but lacks candidates or text; and a result it returns has diff NONE
\* when the Patch section is missing, empty or "none", and confidence 0.5 when
\* the Confidence section is missing or not a number.
C32_FailureVersusDegradation ==
    [][\A w \in Workers :
          (pc[w] = "analyze" /\ pc'[w] # pc[w])
              => /\ pc'[w] # "updateBug"
                    => /\ err'[w] \in {MsgNoResponse, MsgStatus, MsgApiError}
                       /\ result'[w] = result[w]
                 /\ pc'[w] = "updateBug"
                    => /\ response'[w].patch \in {NULL, "", "none", "None", "NONE"}
                            => result'[w].diff = "NONE"
                       /\ response'[w].confidence \in {NULL, "high"}
                            => result'[w].confidence = <<Unit \div 2>>]_vars

\* the last entries of everything pushed to a buffer, at most maxSize of them, in
\* the order of the pushes
Newest(pushed) ==
    SubSeq(pushed, (IF Len(pushed) > maxSize THEN Len(pushed) - maxSize ELSE 0) + 1, Len(pushed))

\* C33: each telemetry buffer holds at most 20 entries, and they are the entries
\* pushed most recently since the buffer was last cleared, in insertion order.
C33_BoundedFifo ==
    /\ Len(telemetry.consoleLogs) <= maxSize
    /\ Len(telemetry.networkErrors) <= maxSize
    /\ telemetry.consoleLogs = Newest(added.consoleLogs)
    /\ telemetry.networkErrors = Newest(added.networkErrors)

C33_Witness ==
    /\ Len(added.consoleLogs) > maxSize /\ Len(added.networkErrors) > maxSize
    /\ Len(telemetry.consoleLogs) = maxSize
    /\ telemetry.consoleLogs[1].timestamp = Len(added.consoleLogs) - maxSize + 1
    /\ telemetry.networkErrors[maxSize].url = "/api/bugs"

\* a form submission ends in this step
Submits == widget'.attempts # widget.attempts

\* C39 as stated: a buffer is emptied only by a submission that was answered
\* successfully, and after any other submission each buffer still holds every
\* entry it held before the attempt.
C39_RetainedOnFailure ==
    [][/\ (\/ telemetry.consoleLogs # <<>> /\ telemetry'.consoleLogs = <<>>
           \/ telemetry.networkErrors # <<>> /\ telemetry'.networkErrors = <<>>)
             => Submits /\ widget'.answer \in 200..299
       /\ (Submits /\ widget'.answer \notin 200..299)
             => /\ \A i \in 1..Len(telemetry.consoleLogs) :
                      \E j \in 1..Len(telemetry'.consoleLogs) :
                          telemetry'.consoleLogs[j] = telemetry.consoleLogs[i]
                /\ \A i \in 1..Len(telemetry.networkErrors) :
                      \E j \in 1..Len(telemetry'.networkErrors) :
                          telemetry'.networkErrors[j] = telemetry.networkErrors[i]]_vars

\* buffer new continues buffer old: it begins with old's entries in order, less k
\* oldest ones that as many new entries pushed out of a full buffer
Continues(old, new) ==
    \E k \in 0..Len(old) :
        /\ Len(new) >= Len(old) - k
        /\ SubSeq(new, 1, Len(old) - k) = SubSeq(old, k + 1, Len(old))
        /\ k <= Len(new) - (Len(old) - k)
        /\ k > 0 => Len(new) = maxSize

\* C39: a buffer is emptied only by a submission that was answered successfully;
\* a submission that was rejected or failed clears nothing, it pushes its own
\* entries (the rejected or failed request, the logged failure) after the
\* entries the buffers held, and an entry held before is gone only when such a
\* push evicted it from a full buffer.
C39_NotClearedOnFailure ==
    [][/\ (\/ telemetry.consoleLogs # <<>> /\ telemetry'.consoleLogs = <<>>
           \/ telemetry.networkErrors # <<>> /\ telemetry'.networkErrors = <<>>)
             => Submits /\ widget'.answer \in 200..299
       /\ (Submits /\ widget'.answer \notin 200..299)
             => /\ Continues(telemetry.consoleLogs, telemetry'.consoleLogs)
                /\ Continues(telemetry.networkErrors, telemetry'.networkErrors)
                /\ telemetry'.networkErrors # <<>>
                /\ telemetry'.networkErrors[Len(telemetry'.networkErrors)].url = "/api/bugs"]_vars

C39_Witness ==
    /\ widget.attempts > 0 /\ widget.answer = 401
    /\ Len(widget.payload.networkErrors) = maxSize
    /\ telemetry.networkErrors[1] = widget.payload.networkErrors[2]
    /\ telemetry.consoleLogs = widget.payload.consoleLogs
    /\ telemetry.consoleLogs # <<>>

\* a Job a cycle may select: queued, of type ANALYZE_BUG
Waiting(j) == jobs[j].status = "queued" /\ jobs[j].type = "ANALYZE_BUG"

\* C34: with a worker that can be killed anywhere in its cycle and started
\* again, every Job a cycle selects is the oldest queued ANALYZE_BUG Job of that
\* moment, and the provider is never called for a Job it was already called for.
C34_SafeRestart ==
    [][(job' # job \/ pc' # pc)
          => \A w \in Workers :
                /\ (job'[w] # 0 /\ job[w] = 0)
                      => /\ Waiting(job'[w])
                         /\ \A k \in JobIds :
                               Waiting(k) => jobs[job'[w]].createdAt <= jobs[k].createdAt
                /\ (pc[w] = "analyze" /\ pc'[w] \notin {"analyze", "none"})
                      => analyzers[job[w]] = {}]_vars

\* no store call has failed, the worker was killed after the provider was
\* called for the first Job, and the restarted worker is calling the provider
\* for the second Job
C34_Witness ==
    /\ faultsLeft = MaxFaults
    /\ Len(jobs) >= 2
    /\ jobs[1].status = "processing" /\ analyzers[1] = {"w1"}
    /\ job["w1"] = 2 /\ pc["w1"] = "updateBug" /\ analyzers[2] = {"w1"}

\* how the authentication of a POST /api/bugs fails: the header is missing, the
\* key is the key of no project, or the key's project has another publicKey
\* than the (schema-valid) payload names
FailureMode(r) ==
    IF r.key = NULL THEN "missing"
    ELSE IF FindProject(r.key) = 0 THEN "unknown"
    ELSE IF r.valid /\ r.projectPublicKey # projects[FindProject(r.key)].publicKey
    THEN "mismatch"
    ELSE "none"

C36_JobReferencesBug ==
    /\ \A j \in JobIds : jobs[j].payload.parses /\ jobs[j].payload.bugId \in BugIds
    /\ apiPc = "createJob" => apiBug \in BugIds
    /\ \A w \in Workers :
          /\ err[w] # MsgNotFound
          /\ pc[w] \in {"analyze", "updateBug", "markDone"} => bugId[w] \in BugIds

\* both workers have loaded the Bug of the first Job while the handler of the
\* second submission is between bug.create and job.create
C36_Witness ==
    /\ apiPc = "createJob" /\ apiBug = 2 /\ Len(bugs) = 2 /\ Len(jobs) = 1
    /\ \A w \in Workers : pc[w] = "analyze" /\ job[w] = 1 /\ bugId[w] = 1

\* C38: the catch block's Job write changes nothing but that Job's status and
\* error, which becomes the message of the failure, and leaves every Bug as it
\* was; its Bug write changes nothing but the status of the cycle's Bug, which
\* becomes error, and leaves every Job as it was.
C38_ErrorPathFrame ==
    [][\A w \in Workers :
          /\ (pc[w] = "catchJob" /\ pc'[w] \notin {"catchJob", "none"})
                => /\ bugs' = bugs
                   /\ jobs' \in {jobs, [jobs EXCEPT ![job[w]].status = "error",
                                                     ![job[w]].error = err[w]]}
          /\ (pc[w] = "catchBug" /\ pc'[w] \notin {"catchBug", "none"})
                => /\ jobs' = jobs
                   /\ bugs' \in {bugs} \cup {[bugs EXCEPT ![b].status = "error"] :
                                                  b \in {bugId[w]} \cap BugIds}]_vars

\* the 'done' write was rejected after the analysis was persisted: the Job holds
\* the message, the Bug is in error and still holds the analysis
C38_Witness ==
    \E j \in JobIds :
        /\ job["w1"] = j /\ pc["w1"] = "schedule" /\ failedAt["w1"] = "markDone"
        /\ jobs[j].status = "error" /\ jobs[j].error = MsgStore
        /\ bugId["w1"] \in BugIds
        /\ bugs[bugId["w1"]].status = "error"
        /\ bugs[bugId["w1"]].aiAnalysis # NULL
        /\ bugs[bugId["w1"]].aiProvider # NULL

\* C37 (as stated): with a worker that keeps running, provider calls that
\* return and a store that never fails, every queued ANALYZE_BUG Job
\* eventually reaches done or error.
C37_Progress ==
    \A j \in 1..MaxJobs :
        (j \in JobIds /\ Waiting(j))
            ~> (j \in JobIds /\ jobs[j].status \in {"done", "error"})

\* C37 (amended): under the same conditions every queued ANALYZE_BUG Job is
\* eventually claimed, and every Job that the worker that keeps running has
\* selected eventually reaches done or error.
C37_ProgressOfRunningWorker ==
    \A j \in 1..MaxJobs :
        /\ (j \in JobIds /\ Waiting(j)) ~> (j \in JobIds /\ ~Waiting(j))
        /\ (job["w1"] = j /\ pc["w1"] = "markProcessing")
              ~> (j \in JobIds /\ jobs[j].status \in {"done", "error"})

\* the first Job is left in processing by the worker that was killed, and the
\* worker that keeps running has brought the second Job to done
C37_Witness ==
    /\ Len(jobs) = 2
    /\ jobs[1].status = "processing" /\ analyzers[1] = {}
    /\ ~isRunning["w2"] /\ job["w2"] = 0 /\ job["w1"] = 2
    /\ jobs[2].status = "done" /\ analyzers[2] = {"w1"}
====
